---- MODULE Spec2Model ----
(***************************************************************************)
(* shared-bus, src/proxies.rs: the four bus proxies (I2cProxy, SpiProxy,   *)
(* AdcProxy, CanProxy).  Every proxy method is                             *)
(*     self.mutex.lock(|bus| bus.<op>(<args>))                             *)
(* The model follows one call through its steps: the method is entered     *)
(* (Invoke), BusMutex::lock grants the lock (Lock), the closure calls the  *)
(* bus (BusCall), the bus works (BusPhase) and answers (BusReturn), the    *)
(* lock is released and the closure's value handed back (Unlock), and the  *)
(* caller goes on (Resume).  The bus handle is a recording mock: it logs   *)
(* every call it receives and answers with any result of the operation's   *)
(* result type.  BusMutex itself is not part of proxies.rs; Lock and       *)
(* Unlock model the contract the proxies consume.                          *)
(***************************************************************************)
EXTENDS Integers, Sequences, FiniteSets, Bags

\* ---------------------------------------------------------------- bounds
NCtx == 2        \* execution contexts (threads / tasks)
MaxCalls == 2    \* proxy calls, clones and drops issued in one behaviour
MaxBlock == 1    \* would-block answers the mock ADC gives to one read

Ctx == 1 .. NCtx
Main == 1        \* the context that owns the bus manager and creates proxies
NoCtx == 0       \* lock holder value when the lock is free

\* ------------------------------------------------------------- vocabulary
Kind == {"i2c", "spi", "adc", "can"}

Ops == {"i2c_write", "i2c_read", "i2c_write_read", "spi_transfer",
        "spi_write", "adc_read", "can_transmit", "can_receive"}

KindOf(op) ==
    CASE op \in {"i2c_write", "i2c_read", "i2c_write_read"} -> "i2c"
      [] op \in {"spi_transfer", "spi_write"} -> "spi"
      [] op = "adc_read" -> "adc"
      [] OTHER -> "can"

\* Sample arguments: two I2C addresses, one buffer of SPI words, one ADC
\* pin, one CAN frame; receive() takes none.
ArgsOf(op) ==
    CASE KindOf(op) = "i2c" -> {"0x10", "0x20"}
      [] KindOf(op) = "spi" -> {"words"}
      [] op = "adc_read" -> {"pin"}
      [] op = "can_transmit" -> {"frame"}
      [] OTHER -> {"none"}
Args == UNION {ArgsOf(op) : op \in Ops}

\* Chip-select lines of the SPI devices.
Devs == {"csA", "csB"}
NoDev == "none"

\* Results of a bus operation.  A blocking operation answers Ok(v) or Err(e);
\* adc::OneShot::read answers an nb::Result: Ok(v), Err(nb::Error::Other(e))
\* or Err(nb::Error::WouldBlock).
Vals == {"v"}
Errs == {"Arbitration"}
Ok(v) == [tag |-> "Ok", val |-> v]
Err(e) == [tag |-> "Err", val |-> e]
NbOther(e) == [tag |-> "NbOther", val |-> e]
WouldBlock == [tag |-> "NbWouldBlock", val |-> "none"]
NoRes == [tag |-> "None", val |-> "none"]

Completed(op) ==
    IF op = "adc_read"
    THEN {Ok(v) : v \in Vals} \cup {NbOther(e) : e \in Errs}
    ELSE {Ok(v) : v \in Vals} \cup {Err(e) : e \in Errs}

BusResults(op) ==
    IF op = "adc_read" THEN Completed(op) \cup {WouldBlock} ELSE Completed(op)

AllResults == UNION {BusResults(op) : op \in Ops}

VARIABLES
    proxies,   \* proxies[c]: the bag of proxies context c holds
    pc,        \* pc[c]: where context c is in its current call
    cur,       \* cur[c]: the call context c is making
    holder,    \* the context inside BusMutex::lock, or NoCtx
    acq,       \* the contexts the lock was granted to, in order
    log,       \* what the mock bus recorded, in order
    cs,        \* the chip-select lines currently asserted
    ncalls     \* proxy calls, clones and drops issued so far

vars == <<proxies, pc, cur, holder, acq, log, cs, ncalls>>

\* A call in progress: the operation and its argument, the chip-select line
\* the calling driver asserted (SPI), the bus operation's phase, the request
\* the bus received, and what the call has done so far: lock acquisitions,
\* bus calls, would-block answers, the log position of its first bus call,
\* the bus's last answer and the value handed back to the caller.
NoReq == [op |-> "none", arg |-> "none"]
NoCall == [op |-> "none", arg |-> "none", dev |-> NoDev, ph |-> "-",
           req |-> NoReq, nacq |-> 0, nbus |-> 0, nblock |-> 0, first |-> 0,
           res |-> NoRes, ret |-> NoRes]

\* A proxy is its one field, mutex: &'a M, and its type.  TheMutex is the
\* lock of the bus manager, the one whose holder is `holder`.
TheMutex == "mutex"
Proxy(k) == [kind |-> k, mutex |-> TheMutex]

\* The kinds of proxy context c holds at least one of.
Holds(c) == {p.kind : p \in BagToSet(proxies[c])}

\* The bus manager's context holds one proxy of each kind; nothing has been
\* called yet.
Init ==
    /\ proxies = [c \in Ctx |->
                    IF c = Main THEN SetToBag({Proxy(k) : k \in Kind})
                    ELSE EmptyBag]
    /\ pc = [c \in Ctx |-> "idle"]
    /\ cur = [c \in Ctx |-> NoCall]
    /\ holder = NoCtx
    /\ acq = <<>>
    /\ log = <<>>
    /\ cs = {}
    /\ ncalls = 0

\* ------------------------------------------------------------ the proxies

\* Variant of IsSend: SpiProxy without its marker field, free to cross
\* contexts like the other proxies.
IsSendRacy(k) == TRUE

\* SpiProxy carries PhantomData<*mut ()>, which makes it !Send; the other
\* proxies hold only &M and go wherever &M may go.
IsSend(k) == k # "spi"

\* Variant of CloneOf: the clone refers to a lock of its own, wrapping a copy
\* of the bus.
CloneCopiesBus(p) == [kind |-> p.kind, mutex |-> "copy"]

\* clone(): Self { mutex: &self.mutex }, for SpiProxy with a fresh marker.
CloneOf(p) == [kind |-> p.kind, mutex |-> p.mutex]

\* Context c hands clones of its proxies to context c2 (a spawned thread or
\* task): every proxy that is Send goes, the others stay behind.
Share(c, c2) ==
    /\ c2 # c
    /\ proxies[c] # EmptyBag
    /\ proxies[c2] = EmptyBag
    /\ proxies' = [proxies EXCEPT ![c2] =
            SetToBag({CloneOf(p) : p \in
                        {q \in BagToSet(proxies[c]) : IsSend(q.kind)}})]
    /\ UNCHANGED <<pc, cur, holder, acq, log, cs, ncalls>>

\* A context, between its calls, clones one of its proxies.
Clone(c, p) ==
    /\ pc[c] = "idle"
    /\ ncalls < MaxCalls
    /\ BagIn(p, proxies[c])
    /\ proxies' = [proxies EXCEPT ![c] = @ (+) SetToBag({CloneOf(p)})]
    /\ ncalls' = ncalls + 1
    /\ UNCHANGED <<pc, cur, holder, acq, log, cs>>

\* A context, between its calls, drops one of its proxies.  The proxies have
\* no Drop impl: the reference is forgotten and nothing else happens.
DropProxy(c, p) ==
    /\ pc[c] = "idle"
    /\ ncalls < MaxCalls
    /\ BagIn(p, proxies[c])
    /\ proxies' = [proxies EXCEPT ![c] = @ (-) SetToBag({p})]
    /\ ncalls' = ncalls + 1
    /\ UNCHANGED <<pc, cur, holder, acq, log, cs>>

\* The SPI driver of the doc comment: it asserts its chip-select line, then
\* calls the proxy, and deasserts the line after the call returned.
AssertCS(c, d) ==
    /\ pc[c] = "idle"
    /\ "spi" \in Holds(c)
    /\ ncalls < MaxCalls
    /\ cs' = cs \cup {d}
    /\ pc' = [pc EXCEPT ![c] = "cs"]
    /\ cur' = [cur EXCEPT ![c] = [NoCall EXCEPT !.dev = d]]
    /\ UNCHANGED <<proxies, holder, acq, log, ncalls>>

\* Variant of Invoke: the method runs its closure without taking the lock.
InvokeSkipsLock(c, op, arg) ==
    /\ ncalls < MaxCalls
    /\ arg \in ArgsOf(op)
    /\ KindOf(op) \in Holds(c)
    /\ IF KindOf(op) = "spi" THEN pc[c] = "cs" ELSE pc[c] = "idle"
    /\ cur' = [cur EXCEPT ![c] = [@ EXCEPT !.op = op, !.arg = arg]]
    /\ pc' = [pc EXCEPT ![c] = "locked"]
    /\ ncalls' = ncalls + 1
    /\ UNCHANGED <<proxies, holder, acq, log, cs>>

\* Variant of Invoke: the SPI methods run their closure without the lock.
InvokeSpiNoLock(c, op, arg) ==
    /\ ncalls < MaxCalls
    /\ arg \in ArgsOf(op)
    /\ KindOf(op) \in Holds(c)
    /\ IF KindOf(op) = "spi" THEN pc[c] = "cs" ELSE pc[c] = "idle"
    /\ cur' = [cur EXCEPT ![c] = [@ EXCEPT !.op = op, !.arg = arg]]
    /\ pc' = [pc EXCEPT ![c] = IF KindOf(op) = "spi" THEN "locked" ELSE "call"]
    /\ ncalls' = ncalls + 1
    /\ UNCHANGED <<proxies, holder, acq, log, cs>>

\* Variant of Invoke: the method only tries the lock, and returns without
\* running its closure when the lock is taken.
InvokeDropped(c, op, arg) ==
    /\ ncalls < MaxCalls
    /\ arg \in ArgsOf(op)
    /\ KindOf(op) \in Holds(c)
    /\ IF KindOf(op) = "spi" THEN pc[c] = "cs" ELSE pc[c] = "idle"
    /\ cur' = [cur EXCEPT ![c] = [@ EXCEPT !.op = op, !.arg = arg]]
    /\ pc' = [pc EXCEPT ![c] = IF holder = NoCtx THEN "call" ELSE "ret"]
    /\ ncalls' = ncalls + 1
    /\ UNCHANGED <<proxies, holder, acq, log, cs>>

\* Variant of InvokeCall: CanProxy.receive runs its closure without a grant
\* of its own.
InvokeCallCanReceiveNoLock(c, op, arg) ==
    /\ arg \in ArgsOf(op)
    /\ KindOf(op) \in Holds(c)
    /\ IF KindOf(op) = "spi" THEN pc[c] = "cs" ELSE pc[c] = "idle"
    /\ cur' = [cur EXCEPT ![c] = [@ EXCEPT !.op = op, !.arg = arg]]
    /\ pc' = [pc EXCEPT ![c] = IF op = "can_receive" THEN "locked" ELSE "call"]
    /\ ncalls' = ncalls + 1
    /\ UNCHANGED <<proxies, holder, acq, log, cs>>

\* A proxy method is entered: its body is one call of self.mutex.lock.  An
\* SPI method is entered by a driver that has asserted its chip-select line.
InvokeCall(c, op, arg) ==
    /\ arg \in ArgsOf(op)
    /\ KindOf(op) \in Holds(c)
    /\ IF KindOf(op) = "spi" THEN pc[c] = "cs" ELSE pc[c] = "idle"
    /\ cur' = [cur EXCEPT ![c] = [@ EXCEPT !.op = op, !.arg = arg]]
    /\ pc' = [pc EXCEPT ![c] = "call"]
    /\ ncalls' = ncalls + 1
    /\ UNCHANGED <<proxies, holder, acq, log, cs>>

\* A proxy method is entered, within the number of calls followed in one
\* behaviour.
Invoke(c, op, arg) ==
    /\ ncalls < MaxCalls
    /\ InvokeCall(c, op, arg)

\* BusMutex::lock grants exclusive access and starts the closure.
Lock(c) ==
    /\ pc[c] = "call"
    /\ holder = NoCtx
    /\ holder' = c
    /\ acq' = Append(acq, c)
    /\ cur' = [cur EXCEPT ![c].nacq = @ + 1]
    /\ pc' = [pc EXCEPT ![c] = "locked"]
    /\ UNCHANGED <<proxies, log, cs, ncalls>>

\* Variant of Forward: the bus gets a fixed address, not the caller's.
ForwardDropArg(call) ==
    [op |-> call.op,
     arg |-> IF KindOf(call.op) = "i2c" THEN "0x10" ELSE call.arg]

\* What the closure passes to the bus: the method's own operation and
\* arguments.
Forward(call) == [op |-> call.op, arg |-> call.arg]

\* The bus operation's first phase: write_read starts with its write phase.
FirstPhase(op) == IF op = "i2c_write_read" THEN "w" ELSE "-"

\* The mock's record of the order of the calls (and phases) it served: who
\* called, and under which grant of the lock (the number of grants so far).
\* The request itself, operation and arguments as the bus received them, is
\* kept with the call (cur[c].req).
Entry(c, ph) == [ctx |-> c, ph |-> ph, tk |-> Len(acq)]

\* Variant of BusCall: the bus is called before the lock is granted.
BusCallUnlocked(c) ==
    /\ pc[c] \in {"call", "locked"}
    /\ log' = Append(log, Entry(c, FirstPhase(cur[c].op)))
    /\ cur' = [cur EXCEPT ![c] = [@ EXCEPT !.nbus = @ + 1,
                    !.req = Forward(cur[c]),
                    !.ph = FirstPhase(cur[c].op),
                    !.first = IF @ = 0 THEN Len(log) + 1 ELSE @]]
    /\ pc' = [pc EXCEPT ![c] = "inbus"]
    /\ UNCHANGED <<proxies, holder, acq, cs, ncalls>>

\* The closure calls the bus operation.
BusCall(c) ==
    /\ pc[c] = "locked"
    /\ log' = Append(log, Entry(c, FirstPhase(cur[c].op)))
    /\ cur' = [cur EXCEPT ![c] = [@ EXCEPT !.nbus = @ + 1,
                    !.req = Forward(cur[c]),
                    !.ph = FirstPhase(cur[c].op),
                    !.first = IF @ = 0 THEN Len(log) + 1 ELSE @]]
    /\ pc' = [pc EXCEPT ![c] = "inbus"]
    /\ UNCHANGED <<proxies, holder, acq, cs, ncalls>>

\* The bus goes from the write phase to the read phase of a write_read.
BusPhase(c) ==
    /\ pc[c] = "inbus"
    /\ cur[c].ph = "w"
    /\ log' = Append(log, Entry(c, "r"))
    /\ cur' = [cur EXCEPT ![c].ph = "r"]
    /\ UNCHANGED <<proxies, pc, holder, acq, cs, ncalls>>

\* Variant of BlockBreaks: the loop goes on until a sample is ready, bus
\* errors included.
BlockRetriesError(r) == r.tag = "Ok"

\* Variant of BlockBreaks: no loop, the first answer ends the closure.
BlockBreaksAlways(r) == TRUE

\* nb::block!(e): loop { match e { Err(Other(e)) => break Err(e),
\* Err(WouldBlock) => {}, Ok(x) => break Ok(x) } }
\* BlockBreaks: whether answer r leaves the loop; BlockValue: the value the
\* loop then yields.
BlockBreaks(r) == r # WouldBlock
BlockValue(r) == IF r.tag = "NbOther" THEN Err(r.val) ELSE r
\* .map_err(nb::Error::Other)
MapErrOther(r) == IF r.tag = "Err" THEN NbOther(r.val) ELSE r

\* Variant of ClosureDone: the closure gives up on the first answer, ready
\* or not.
ClosureDoneGivesUp(op, r) == TRUE

\* Whether the closure is finished once the bus answered r.
ClosureDone(op, r) == IF op = "adc_read" THEN BlockBreaks(r) ELSE TRUE

\* Variant of ClosureValue: bus errors are replaced by an error of the
\* proxy's own.
ClosureValueWrapped(op, r) == IF r.tag = "Err" THEN Err("Bus") ELSE r

\* The closure's value when it finishes on the bus's answer r.
ClosureValue(op, r) ==
    IF op = "adc_read" THEN MapErrOther(BlockValue(r)) ELSE r

\* Variant of BusReturn: on would-block the lock is given up and taken again
\* for the next poll (nb::block! around the lock instead of inside it).
BusReturnReleases(c, r) ==
    /\ pc[c] = "inbus"
    /\ r \in BusResults(cur[c].op)
    /\ r = WouldBlock => cur[c].nblock < MaxBlock
    /\ cur[c].ph = "w" => r.tag # "Ok"
    /\ IF ClosureDone(cur[c].op, r)
       THEN /\ pc' = [pc EXCEPT ![c] = "closed"]
            /\ cur' = [cur EXCEPT ![c] = [@ EXCEPT !.res = r,
                            !.ret = ClosureValue(cur[c].op, r)]]
            /\ UNCHANGED holder
       ELSE /\ pc' = [pc EXCEPT ![c] = "call"]
            /\ cur' = [cur EXCEPT ![c] = [@ EXCEPT !.res = r,
                            !.nblock = @ + 1]]
            /\ holder' = NoCtx
    /\ UNCHANGED <<proxies, acq, log, cs, ncalls>>

\* The bus operation answers r: the closure ends with its value, or (ADC,
\* would-block) polls again, still inside the lock.  A write_read answers Ok
\* only after its read phase.
BusReturn(c, r) ==
    /\ pc[c] = "inbus"
    /\ r \in BusResults(cur[c].op)
    /\ r = WouldBlock => cur[c].nblock < MaxBlock
    /\ cur[c].ph = "w" => r.tag # "Ok"
    /\ IF ClosureDone(cur[c].op, r)
       THEN /\ pc' = [pc EXCEPT ![c] = "closed"]
            /\ cur' = [cur EXCEPT ![c] = [@ EXCEPT !.res = r,
                            !.ret = ClosureValue(cur[c].op, r)]]
       ELSE /\ pc' = [pc EXCEPT ![c] = "locked"]
            /\ cur' = [cur EXCEPT ![c] = [@ EXCEPT !.res = r,
                            !.nblock = @ + 1]]
    /\ UNCHANGED <<proxies, holder, acq, log, cs, ncalls>>

\* BusMutex::lock releases the lock and returns the closure's value, which
\* the proxy method returns to its caller.
Unlock(c) ==
    /\ pc[c] = "closed"
    /\ holder' = IF holder = c THEN NoCtx ELSE holder
    /\ pc' = [pc EXCEPT ![c] = "ret"]
    /\ UNCHANGED <<proxies, cur, acq, log, cs, ncalls>>

\* Variant of Resume: after an error the call's state is kept for the next
\* call.
ResumeKeepsError(c) ==
    /\ pc[c] = "ret"
    /\ cur[c].dev = NoDev
    /\ pc' = [pc EXCEPT ![c] = "idle"]
    /\ cur' = [cur EXCEPT ![c] = IF cur[c].ret.tag = "Ok" THEN NoCall ELSE @]
    /\ UNCHANGED <<proxies, holder, acq, log, cs, ncalls>>

\* The caller has its result and goes on.
Resume(c) ==
    /\ pc[c] = "ret"
    /\ cur[c].dev = NoDev
    /\ pc' = [pc EXCEPT ![c] = "idle"]
    /\ cur' = [cur EXCEPT ![c] = NoCall]
    /\ UNCHANGED <<proxies, holder, acq, log, cs, ncalls>>

\* The SPI driver deasserts its chip-select line after the call returned.
DeassertCS(c) ==
    /\ pc[c] = "ret"
    /\ cur[c].dev # NoDev
    /\ cs' = cs \ {cur[c].dev}
    /\ pc' = [pc EXCEPT ![c] = "idle"]
    /\ cur' = [cur EXCEPT ![c] = NoCall]
    /\ UNCHANGED <<proxies, holder, acq, log, ncalls>>

Next ==
    \/ \E c \in Ctx, c2 \in Ctx : Share(c, c2)
    \/ \E c \in Ctx, d \in Devs : AssertCS(c, d)
    \/ \E c \in Ctx, op \in Ops, arg \in Args : Invoke(c, op, arg)
    \/ \E c \in Ctx : Lock(c)
    \/ \E c \in Ctx : BusCall(c)
    \/ \E c \in Ctx : BusPhase(c)
    \/ \E c \in Ctx, r \in AllResults : BusReturn(c, r)
    \/ \E c \in Ctx : Unlock(c)
    \/ \E c \in Ctx : Resume(c)
    \/ \E c \in Ctx : DeassertCS(c)

Spec == Init /\ [][Next]_vars

\* The same program with its proxies cloned and dropped between the calls.
\* The calls are drawn from one operation of each proxy type.
SampleOps == {"i2c_write_read", "spi_transfer", "adc_read", "can_transmit"}

NextProxies ==
    \/ \E c \in Ctx, c2 \in Ctx : Share(c, c2)
    \/ \E c \in Ctx : \E p \in BagToSet(proxies[c]) : Clone(c, p)
    \/ \E c \in Ctx : \E p \in BagToSet(proxies[c]) : DropProxy(c, p)
    \/ \E c \in Ctx, d \in Devs : AssertCS(c, d)
    \/ \E c \in Ctx, op \in SampleOps, arg \in Args : Invoke(c, op, arg)
    \/ \E c \in Ctx : Lock(c)
    \/ \E c \in Ctx : BusCall(c)
    \/ \E c \in Ctx : BusPhase(c)
    \/ \E c \in Ctx, r \in AllResults : BusReturn(c, r)
    \/ \E c \in Ctx : Unlock(c)
    \/ \E c \in Ctx : Resume(c)
    \/ \E c \in Ctx : DeassertCS(c)

SpecProxies == Init /\ [][NextProxies]_vars

\* A CAN driver in the main context: it transmits a frame and then receives,
\* two calls of CanProxy one after the other, while the other contexts call
\* their own proxies.  DriverOp is the driver's next call: transmit until a
\* call of its own has been granted the lock, receive from then on.
\* MaxDriverCalls leaves room for the driver's two calls and MaxCalls - 1
\* calls of the other contexts.
MaxDriverCalls == MaxCalls + 1

DriverOp ==
    IF \E i \in 1 .. Len(acq) : acq[i] = Main
    THEN "can_receive" ELSE "can_transmit"

InvokeDriver(arg) ==
    /\ ncalls < MaxDriverCalls
    /\ InvokeCall(Main, DriverOp, arg)

InvokeOther(c, op, arg) ==
    /\ c # Main
    /\ ncalls < MaxDriverCalls
    /\ InvokeCall(c, op, arg)

NextDriver ==
    \/ \E c \in Ctx, c2 \in Ctx : Share(c, c2)
    \/ \E arg \in Args : InvokeDriver(arg)
    \/ \E c \in Ctx, op \in Ops, arg \in Args : InvokeOther(c, op, arg)
    \/ \E c \in Ctx : Lock(c)
    \/ \E c \in Ctx : BusCall(c)
    \/ \E c \in Ctx : BusPhase(c)
    \/ \E c \in Ctx, r \in AllResults : BusReturn(c, r)
    \/ \E c \in Ctx : Unlock(c)
    \/ \E c \in Ctx : Resume(c)

SpecDriver == Init /\ [][NextDriver]_vars

\* The program with a lock that grants every waiting caller eventually
\* (strong fairness: the lock is free again and again, not continuously),
\* closures that go on running, and bus operations that terminate.  The ADC
\* reports completion after MaxBlock would-blocks at the latest (BusReturn).
Fairness ==
    \A c \in Ctx :
        /\ SF_vars(Lock(c))
        /\ WF_vars(BusCall(c))
        /\ WF_vars(\E r \in AllResults : BusReturn(c, r))
        /\ WF_vars(Unlock(c))

SpecFair == Spec /\ Fairness

\* The same program on a bus whose ADC never has a sample: every answer to
\* adc read is would-block.  The polls are followed up to MaxBlock answers;
\* the poll after that is never seen to end.
BusReturnStuck(c, r) ==
    /\ cur[c].op = "adc_read" => r = WouldBlock
    /\ BusReturn(c, r)

NextStuck ==
    \/ \E c \in Ctx, c2 \in Ctx : Share(c, c2)
    \/ \E c \in Ctx, d \in Devs : AssertCS(c, d)
    \/ \E c \in Ctx, op \in Ops, arg \in Args : Invoke(c, op, arg)
    \/ \E c \in Ctx : Lock(c)
    \/ \E c \in Ctx : BusCall(c)
    \/ \E c \in Ctx : BusPhase(c)
    \/ \E c \in Ctx, r \in AllResults : BusReturnStuck(c, r)
    \/ \E c \in Ctx : Unlock(c)
    \/ \E c \in Ctx : Resume(c)
    \/ \E c \in Ctx : DeassertCS(c)

SpecStuck == Init /\ [][NextStuck]_vars

TypeOK ==
    /\ holder \in Ctx \cup {NoCtx}
    /\ ncalls \in 0 .. MaxDriverCalls
    /\ cs \subseteq Devs
    /\ \A c \in Ctx : IsABag(proxies[c]) /\ Holds(c) \subseteq Kind

\* ------------------------------------------------------------- properties

\* The contexts inside a bus operation, and the contexts inside the lock's
\* closure (between grant and release).
InBus == {c \in Ctx : pc[c] = "inbus"}
InClosure == {c \in Ctx : pc[c] \in {"locked", "inbus", "closed"}}
Returned(c) == pc[c] = "ret"

\* C1: at most one bus operation executes at any time, and the bus observes
\* the operations in the order in which their callers were granted the lock:
\* every call the bus records was made by the context of the latest grant,
\* and every earlier grant has its call in the record.
C1_Serialized ==
    /\ Cardinality(InBus) <= 1
    /\ \A i \in 1 .. Len(log) :
          /\ log[i].tk \in 1 .. Len(acq)
          /\ acq[log[i].tk] = log[i].ctx
    /\ \A t \in 1 .. Len(acq) - 1 : \E i \in 1 .. Len(log) : log[i].tk = t
    /\ \A i, j \in 1 .. Len(log) : i < j => log[i].tk <= log[j].tk

\* Two contexts called concurrently: the bus served one call entirely, and
\* serves the other's now.
C1_Witness ==
    \E c, c2 \in Ctx :
        /\ c # c2
        /\ Returned(c)
        /\ pc[c2] = "inbus"
        /\ acq = <<c, c2>>
        /\ Len(log) >= 2

\* C2 as amended: a returned call took the lock exactly once; the bus got
\* the call's own operation and arguments; it got them exactly once, except
\* for AdcProxy.read, which polls once per would-block answer and once more.
C2_OneLockOneCall ==
    \A c \in Ctx :
        /\ cur[c].nbus >= 1 => cur[c].req = [op |-> cur[c].op, arg |-> cur[c].arg]
        /\ Returned(c) =>
              /\ cur[c].nacq = 1
              /\ cur[c].nbus =
                    IF cur[c].op = "adc_read" THEN cur[c].nblock + 1 ELSE 1

\* C2 as stated: every returned call made exactly one call on the bus.
C2_Original ==
    \A c \in Ctx :
        Returned(c) =>
            /\ cur[c].nacq = 1
            /\ cur[c].nbus = 1
            /\ cur[c].req = [op |-> cur[c].op, arg |-> cur[c].arg]

\* A read of the ADC returned after the bus was polled twice, and the bus
\* got the pin it was called with.
C2_Witness ==
    \E c \in Ctx :
        /\ Returned(c)
        /\ cur[c].op = "adc_read"
        /\ cur[c].req = [op |-> "adc_read", arg |-> "pin"]
        /\ cur[c].nbus = 2
        /\ cur[c].nacq = 1

\* C3 as amended: the value a proxy method hands back is the answer of the
\* bus call that ended its closure, unchanged; the one answer that is not
\* handed back is the ADC's would-block, on which AdcProxy.read polls again.
C3_PassThrough ==
    \A c \in Ctx :
        /\ pc[c] \in {"closed", "ret"} =>
              /\ cur[c].ret = cur[c].res
              /\ cur[c].res \in Completed(cur[c].op)
        /\ cur[c].res = WouldBlock =>
              /\ cur[c].op = "adc_read"
              /\ pc[c] \in {"locked", "inbus"}

\* C3 as stated: whatever the bus answered is what the call returns.
C3_Original ==
    \A c \in Ctx :
        cur[c].res # NoRes =>
            /\ pc[c] \in {"closed", "ret"}
            /\ cur[c].ret = cur[c].res

\* CanProxy.transmit on a bus answering Err(Arbitration) returned it.
C3_Witness ==
    \E c \in Ctx :
        /\ Returned(c)
        /\ cur[c].op = "can_transmit"
        /\ cur[c].res = Err("Arbitration")
        /\ cur[c].ret = Err("Arbitration")

\* C4: AdcProxy.read holds the lock, granted once, from its first poll to
\* the end of its closure, and returns only on an answer that is not
\* would-block: after N would-block answers the bus was polled N+1 times and
\* the call returns the last poll's answer.
C4_AdcBlocks ==
    \A c \in Ctx :
        cur[c].op = "adc_read" =>
            /\ c \in InClosure => holder = c /\ cur[c].nacq = 1
            /\ cur[c].nblock >= 1 => pc[c] \in {"locked", "inbus", "closed", "ret"}
            /\ pc[c] \in {"closed", "ret"} =>
                  /\ cur[c].nbus = cur[c].nblock + 1
                  /\ cur[c].res # WouldBlock
                  /\ cur[c].ret = cur[c].res
                  /\ cur[c].nacq = 1

\* A read returned a sample after MaxBlock would-block answers.
C4_Witness ==
    \E c \in Ctx :
        /\ Returned(c)
        /\ cur[c].op = "adc_read"
        /\ cur[c].nblock = MaxBlock
        /\ cur[c].nbus = MaxBlock + 1
        /\ cur[c].ret = Ok("v")

\* C5: I2cProxy.write_read is atomic: the bus serves the read phase right
\* after the write phase of the same call, under the same grant of the lock,
\* and while the bus operation runs its caller holds the lock and the last
\* thing the bus recorded is this call's.
C5_WriteReadAtomic ==
    /\ \A j \in 1 .. Len(log) :
          log[j].ph = "r" =>
              /\ j > 1
              /\ log[j - 1].ph = "w"
              /\ log[j - 1].ctx = log[j].ctx
              /\ log[j - 1].tk = log[j].tk
    /\ \A c \in Ctx :
          (cur[c].op = "i2c_write_read" /\ pc[c] = "inbus") =>
              /\ holder = c
              /\ cur[c].nacq = 1
              /\ log[Len(log)].ctx = c
              /\ log[Len(log)].ph = cur[c].ph

\* A write_read is in its read phase while another context's call waits for
\* the lock.
C5_Witness ==
    \E c, c2 \in Ctx :
        /\ c # c2
        /\ cur[c].op = "i2c_write_read"
        /\ pc[c] = "inbus"
        /\ cur[c].ph = "r"
        /\ pc[c2] = "call"

\* C6: while a call of one proxy type is inside the lock's closure, no call
\* of another proxy type executes on the bus.
C6_CrossTypeExclusive ==
    \A c, c2 \in Ctx :
        (c # c2 /\ c \in InClosure /\ c2 \in InBus) =>
            KindOf(cur[c].op) = KindOf(cur[c2].op)

\* An SPI transfer executes on the bus while an I2C call of another context
\* waits for the lock.
C6_Witness ==
    \E c, c2 \in Ctx :
        /\ c # c2
        /\ pc[c] = "inbus"
        /\ KindOf(cur[c].op) = "spi"
        /\ pc[c2] = "call"
        /\ KindOf(cur[c2].op) = "i2c"

CanOps == {"can_transmit", "can_receive"}

\* C7: CanProxy.transmit and CanProxy.receive each hold the lock for their
\* own call only: each is granted the lock once, holds it while its closure
\* runs, and the lock is not held by a context whose call has returned.
C7_SeparateHolds ==
    \A c \in Ctx :
        /\ pc[c] \in {"idle", "call", "ret"} => holder # c
        /\ cur[c].op \in CanOps =>
              /\ c \in InClosure => holder = c
              /\ pc[c] \in {"locked", "inbus", "closed", "ret"} =>
                    cur[c].nacq = 1

\* The driver's transmit was granted the lock first and has returned; a call
\* of another context was granted the lock next, ran on the bus and has
\* returned; the driver's receive, granted the lock third, is on the bus.
C7_Witness ==
    \E c2 \in Ctx \ {Main} :
        /\ acq = <<Main, c2, Main>>
        /\ Len(log) = 3
        /\ log[1] = [ctx |-> Main, ph |-> "-", tk |-> 1]
        /\ log[2] = [ctx |-> c2, ph |-> "-", tk |-> 2]
        /\ log[3] = [ctx |-> Main, ph |-> "-", tk |-> 3]
        /\ pc[Main] = "inbus"
        /\ cur[Main].op = "can_receive"
        /\ cur[Main].nacq = 1
        /\ holder = Main
        /\ Returned(c2)
        /\ cur[c2].op = "i2c_write"

\* A read of the ADC between its first poll and the end of its closure.
AdcPolling(c) ==
    /\ cur[c].op = "adc_read"
    /\ cur[c].nbus >= 1
    /\ c \in InClosure

\* C8: while AdcProxy.read polls, the lock stays with its caller and the bus
\* serves nobody else: everything the bus recorded since the first poll is
\* this call's, and no other context is inside the lock's closure.
C8_AdcStallsOthers ==
    \A c \in Ctx :
        AdcPolling(c) =>
            /\ holder = c
            /\ InClosure = {c}
            /\ \A i \in cur[c].first .. Len(log) : log[i].ctx = c

\* A read got would-block and polls again while another context's call
\* waits for the lock.
C8_Witness ==
    \E c, c2 \in Ctx :
        /\ c # c2
        /\ AdcPolling(c)
        /\ cur[c].res = WouldBlock
        /\ cur[c].nbus = 2
        /\ pc[c] = "inbus"
        /\ pc[c2] = "call"

\* C9: the bus is touched only by the context that holds the lock: a context
\* inside a bus operation is the holder, and the holder is inside its
\* closure, not before its call nor after its return.
C9_BusOnlyUnderLock ==
    /\ \A c \in InBus : holder = c
    /\ \A c \in Ctx : holder = c <=> c \in InClosure
    /\ holder = NoCtx <=> InClosure = {}

\* One context's call has returned and the lock is free, while the other's
\* call waits for the lock without having touched the bus.
C9_Witness ==
    \E c, c2 \in Ctx :
        /\ c # c2
        /\ Returned(c)
        /\ holder = NoCtx
        /\ pc[c2] = "call"
        /\ cur[c2].nbus = 0
        /\ Len(log) >= 1

\* C10: with the SPI proxy confined to the context of its drivers, an SPI
\* transfer executes on the bus only while the transferring driver's
\* chip-select line, and no other, is asserted; and the lock is never inside
\* two closures.  (Without the confinement the first part fails and the
\* second still holds: see IsSendRacy.)
C10_ChipSelect ==
    /\ \A c \in InBus :
          KindOf(cur[c].op) = "spi" => cs = {cur[c].dev}
    /\ Cardinality(InClosure) <= 1

\* An SPI transfer executes with its chip-select line asserted while another
\* context's call waits for the lock.
C10_Witness ==
    \E c, c2 \in Ctx :
        /\ c # c2
        /\ pc[c] = "inbus"
        /\ cur[c].op = "spi_transfer"
        /\ cs = {"csA"}
        /\ cur[c].dev = "csA"
        /\ pc[c2] = "call"

SpiOps == {"spi_transfer", "spi_write"}

\* C11: an SpiProxy never leaves the context that created it: no other
\* context holds one, asserts a chip-select line for one or has an SPI call
\* in progress, so every SPI operation on the bus is the creating context's.
C11_SpiConfined ==
    \A c \in Ctx \ {Main} :
        /\ "spi" \notin Holds(c)
        /\ cur[c].op \notin SpiOps
        /\ cur[c].dev = NoDev
        /\ pc[c] # "cs"

\* The creating context cloned its SpiProxy and handed its proxies on: the
\* other context got proxies, but no SpiProxy, and the SPI transfer on the bus
\* is the creating context's.
C11_Witness ==
    \E c2 \in Ctx \ {Main} :
        /\ CopiesIn(Proxy("spi"), proxies[Main]) = 2
        /\ Holds(c2) = {"i2c", "adc", "can"}
        /\ pc[Main] = "inbus"
        /\ cur[Main].op = "spi_transfer"

\* Every proxy any context holds refers to the bus manager's lock.
AllSameLock ==
    \A c \in Ctx : \A p \in BagToSet(proxies[c]) : p.mutex = TheMutex

\* C12: a clone refers to the lock of its original, so every proxy refers to
\* the one lock and at most one call is inside it; and a step that creates
\* or drops proxies takes no lock and touches no bus: it leaves the lock, the
\* record of its grants, the bus's record, every call in progress and the
\* chip-select lines as they are.
C12_CloneSameLock ==
    /\ [](AllSameLock /\ Cardinality(InClosure) <= 1)
    /\ [][proxies' # proxies =>
            UNCHANGED <<pc, cur, holder, acq, log, cs>>]_vars

\* A context holds its I2cProxy and a clone of it while another context's
\* call is on the bus, inside the lock.
C12_Witness ==
    \E c, c2 \in Ctx :
        /\ c # c2
        /\ CopiesIn(Proxy("i2c"), proxies[c]) = 2
        /\ pc[c] = "idle"
        /\ pc[c2] = "inbus"
        /\ holder = c2
        /\ ncalls = MaxCalls

\* A read of the ADC that has been granted the lock.
AdcInside(c) == cur[c].op = "adc_read" /\ c \in InClosure

\* C13: on a bus whose ADC never completes, a read never ends its closure
\* and never returns; once it has the lock it keeps it for ever: no step
\* takes it out of its closure, the lock is granted to nobody else, and
\* whatever the bus records from then on is this read's polls.
C13_NoTimeout ==
    /\ [](\A c \in Ctx :
            cur[c].op = "adc_read" => pc[c] \in {"call", "locked", "inbus"})
    /\ [][\A c \in Ctx :
            AdcInside(c) =>
                /\ AdcInside(c)'
                /\ holder' = c
                /\ acq' = acq
                /\ InClosure' = {c}
                /\ \A i \in (Len(log) + 1) .. Len(log') : log'[i].ctx = c]_vars

\* A read got would-block MaxBlock times and polls on, holding the lock,
\* while another context's call waits for the lock.
C13_Witness ==
    \E c, c2 \in Ctx :
        /\ c # c2
        /\ AdcInside(c)
        /\ cur[c].nblock = MaxBlock
        /\ cur[c].nbus = MaxBlock + 1
        /\ pc[c] = "inbus"
        /\ holder = c
        /\ pc[c2] = "call"
        /\ cur[c2].nbus = 0

\* C14: under a fair lock and terminating bus operations no call is dropped:
\* a call that has returned has run its bus operation and carries the
\* closure's value, and every invoked call eventually returns.
C14_NoSilentDrop ==
    /\ [](\A c \in Ctx :
            Returned(c) => cur[c].nbus >= 1 /\ cur[c].ret # NoRes)
    /\ \A c \in Ctx :
            (cur[c].op # "none") ~> (Returned(c) /\ cur[c].nbus >= 1)

\* An ADC read, second to get the lock, got would-block MaxBlock times and
\* has returned its sample.
C14_Witness ==
    \E c, c2 \in Ctx :
        /\ acq = <<c, c2>>
        /\ Returned(c2)
        /\ cur[c2].op = "adc_read"
        /\ cur[c2].nblock = MaxBlock
        /\ cur[c2].ret = Ok("v")
        /\ holder = NoCtx

\* C15: AdcProxy.read never hands would-block to its caller, and a bus error
\* ends it at once: when the bus has answered an error e the closure is over
\* (no further poll), the bus was polled once more than it answered
\* would-block, the call's value is e as the non-would-block error, and once
\* the call has returned its caller no longer holds the lock.
C15_AdcErrorEndsPolling ==
    \A c \in Ctx :
        cur[c].op = "adc_read" =>
            /\ cur[c].ret # WouldBlock
            /\ cur[c].res.tag = "NbOther" =>
                  /\ pc[c] \in {"closed", "ret"}
                  /\ cur[c].nbus = cur[c].nblock + 1
                  /\ cur[c].ret = NbOther(cur[c].res.val)
                  /\ pc[c] = "closed" => holder = c
            /\ Returned(c) => holder # c /\ cur[c].ret.tag \in {"Ok", "NbOther"}

\* The bus answered would-block MaxBlock times and then an error: the read
\* has returned that error after MaxBlock + 1 polls and the lock is free.
C15_Witness ==
    \E c \in Ctx :
        /\ Returned(c)
        /\ cur[c].op = "adc_read"
        /\ cur[c].nblock = MaxBlock
        /\ cur[c].nbus = MaxBlock + 1
        /\ cur[c].res = NbOther("Arbitration")
        /\ cur[c].ret = NbOther("Arbitration")
        /\ holder = NoCtx

\* C16: a call that returned, with a value or an error, leaves nothing
\* behind: its caller no longer holds the lock, the lock is free when no
\* closure runs, an idle context carries no state of a call, and no step of a
\* call changes a proxy.  Whatever was called and returned before, a call on
\* the bus was granted the lock once, holds it, and the bus received its own
\* operation and arguments.
C16_NoResidue ==
    /\ [](\A c \in Ctx :
            /\ Returned(c) => holder # c
            /\ pc[c] = "idle" => cur[c] = NoCall
            /\ pc[c] = "inbus" =>
                  /\ holder = c
                  /\ cur[c].nacq = 1
                  /\ cur[c].req = [op |-> cur[c].op, arg |-> cur[c].arg]
                  /\ cur[c].ret = NoRes)
    /\ [](InClosure = {} => holder = NoCtx)
    /\ [][pc' # pc \/ cur' # cur => proxies' = proxies]_vars

\* A call returned an error; the next call, granted the lock second, is on
\* the bus with its own request.
C16_Witness ==
    \E c, c2 \in Ctx :
        /\ c # c2
        /\ Returned(c)
        /\ cur[c].ret = Err("Arbitration")
        /\ acq = <<c, c2>>
        /\ pc[c2] = "inbus"
        /\ holder = c2
        /\ cur[c2].req = [op |-> "i2c_write", arg |-> "0x20"]
        /\ log[Len(log)] = Entry(c2, "-")

====
